---- MODULE Spec2Model ----
(***************************************************************************)
(* The ToDo application of p2ppsr/todo-ts (frontend/src/App.tsx): tasks    *)
(* kept as encrypted PushDrop tokens in the wallet basket 'todo tokens'.   *)
(* The model holds the component's React state, the three asynchronous     *)
(* workflows (loadTasks, handleCreateSubmit, handleCompleteSubmit) cut at  *)
(* every await, and the wallet (Signing Service) with its basket as the    *)
(* environment. Spec steps the three workflows; SpecVerify has the redeem  *)
(* of src/App.tsx, which verifies the BEEF first; SpecDiscovery is         *)
(* discovery over tokens of any shape; SpecReload adds the page reload;    *)
(* SpecPoll steps the interval of the availability check; SpecLong is      *)
(* discovery and redeem of tasks with long texts; SpecNoTask adds the      *)
(* submit of the complete form with no task selected.                      *)
(***************************************************************************)
EXTENDS Integers, Sequences, FiniteSets, TLC

\* ------------------------------------------------------------------ bounds
\* Outputs the basket holds when the component mounts.
MaxStore == 2
\* Transactions the wallet creates for this component (create workflows
\* that reach createAction).
MaxCreate == 1
\* Availability checks the interval timer starts.
MaxChecks == 3
\* The longest text of a stored task, in characters: the description of its
\* redeem is then longer than the 128 characters the handler lets through.
MaxText == 106

\* --------------------------------------------------------------- constants
\* The namespace marker '1ToDoDtKreEzbHYKFjmoBuduFmSXXUGZG', as the code
\* points of its text.
TODO_PROTO_ADDR ==
  <<49, 84, 111, 68, 111, 68, 116, 75, 114, 101, 69, 122, 98, 72, 89, 75, 70,
    106, 109, 111, 66, 117, 100, 117, 70, 109, 83, 88, 88, 85, 71, 90, 71>>
PROTOCOL_ID == <<0, "todo list">>
KEY_ID == "1"
\* A key context that is not this application's (tokens of another key).
OTHER_KEY_ID == "2"
\* A first field that is not the marker: the text '1Other'.
OTHER_PROTO_ADDR == <<49, 79, 116, 104, 101, 114>>

\* A JS number: NaN, or a multiple of one half (twice = 2 * value), so that
\* 0.5 and 1.5 are values of the model.
Num(t) == [nan |-> FALSE, twice |-> t]
NaN == [nan |-> TRUE, twice |-> 0]
IsNaN(n) == n.nan
\* n < k for an integer k; every comparison with NaN is false.
NumLt(n, k) == ~n.nan /\ n.twice < 2 * k
\* n === k for an integer k.
NumEq(n, k) == ~n.nan /\ n.twice = 2 * k
DEFAULT_CREATE_AMOUNT == Num(2)

\* ------------------------------------------------------------ text <-> bytes
RECURSIVE ToArray(_)
\* Utils.toArray(text, 'utf8'): code points below 0x80 are one byte, below
\* 0x800 two bytes. The bytes of a text are those of its first half followed
\* by those of its second half.
ToArray(s) ==
  IF s = <<>> THEN <<>>
  ELSE IF Len(s) = 1
       THEN LET c == Head(s)
            IN  IF c < 128 THEN <<c>> ELSE <<192 + (c \div 64), 128 + (c % 64)>>
       ELSE ToArray(SubSeq(s, 1, Len(s) \div 2))
              \o ToArray(SubSeq(s, (Len(s) \div 2) + 1, Len(s)))

RECURSIVE ReadChars(_)
\* Utils.toUTF8(bytes), read from the first byte on: one- and two-byte
\* sequences, the replacement character for a sequence cut short.
ReadChars(b) ==
  IF b = <<>> THEN <<>>
  ELSE IF Head(b) < 128 THEN <<Head(b)>> \o ReadChars(Tail(b))
  ELSE IF Len(b) >= 2
       THEN <<(Head(b) - 192) * 64 + (b[2] - 128)>> \o ReadChars(Tail(Tail(b)))
       ELSE <<65533>>

RECURSIVE CharStart(_, _, _)
\* The position in b at which the reading is after n more characters, being
\* at position i.
CharStart(b, i, n) ==
  IF n = 0 \/ i > Len(b) THEN i
  ELSE CharStart(b, IF b[i] < 128 THEN i + 1 ELSE i + 2, n - 1)

\* Characters read in one go.
ReadAtOnce == 16

RECURSIVE ToUTF8(_)
\* Utils.toUTF8(bytes): the characters are read ReadAtOnce at a time.
ToUTF8(b) ==
  IF Len(b) <= ReadAtOnce THEN ReadChars(b)
  ELSE LET k == CharStart(b, 1, ReadAtOnce)
       IN  ReadChars(SubSeq(b, 1, IF k - 1 > Len(b) THEN Len(b) ELSE k - 1))
             \o ToUTF8(SubSeq(b, k, Len(b)))

\* `${txid}.0`: the outpoint text, as the pair of its two parts.
OutpointOf(txid, vout) == <<txid, vout>>
\* outpoint.split('.')[0]
TxidOf(outpoint) == outpoint[1]

\* ------------------------------------------------------- wallet primitives
\* walletClient.encrypt: the ciphertext is bound to the protocol and key
\* context it was made under.
Encrypt(plaintext, protocolID, keyID) ==
  [ct |-> plaintext, protocolID |-> protocolID, keyID |-> keyID]
\* walletClient.decrypt succeeds only under the context of the encryption.
CanDecrypt(c, protocolID, keyID) ==
  /\ DOMAIN c = {"ct", "protocolID", "keyID"}
  /\ c.protocolID = protocolID
  /\ c.keyID = keyID
Decrypt(c, protocolID, keyID) == c.ct

\* PushDropLock that locks to the key anyone can derive, whatever the
\* counterparty asked for.
PushDropLockAnyone(fields, protocolID, keyID, counterparty) ==
  [kind |-> "pushdrop",
   key |-> <<protocolID, keyID, "anyone">>,
   fields |-> fields]

\* PushDrop.lock: a script spendable by the key of (protocolID, keyID,
\* counterparty), carrying the fields.
PushDropLock(fields, protocolID, keyID, counterparty) ==
  [kind |-> "pushdrop",
   key |-> <<protocolID, keyID, counterparty>>,
   fields |-> fields]
\* A script that is no PushDrop token: PushDrop.decode throws on it.
ForeignScript == [kind |-> "p2pkh"]
Decodable(script) == script.kind = "pushdrop"
\* PushDrop.decode(script).fields
DecodeFields(script) == script.fields
\* LockingScript.toHex() / LockingScript.fromHex()
ToHex(script) == [hex |-> script]
FromHex(h) == h.hex

\* PushDrop.unlock(...).sign(tx, inputIndex): a signature by the key of
\* (protocolID, keyID, counterparty) that commits to the spending
\* transaction, the input it fills, the amount and the script it spends.
UnlockSign(protocolID, keyID, counterparty, signOutputs, anyoneCanPay, sats, script, tx, index) ==
  [key |-> <<protocolID, keyID, counterparty>>,
   scope |-> <<signOutputs, anyoneCanPay>>,
   sats |-> sats,
   script |-> script,
   spends |-> tx.inputs[index + 1],
   inputIndex |-> index]

\* ------------------------------------------------------------------- state
VARIABLES
  basket,          \* the wallet's basket 'todo tokens': its unspent outputs, in store order
  spent,           \* the outpoints the wallet has spent through signAction
  nextTxid,        \* the next transaction reference the wallet hands out
  createOpen,      \* useState: the create dialog is shown
  createTask,      \* useState: the text field of the create dialog
  createAmount,    \* useState: the amount field of the create dialog
  createLoading,   \* useState
  tasksLoading,    \* useState
  tasks,           \* useState: the list on screen
  completeOpen,    \* useState: the complete dialog is shown
  selectedTask,    \* useState: the Task the complete dialog is about, or NoTask
  completeLoading, \* useState
  load,            \* the invocation of loadTasks
  create,          \* the invocation of handleCreateSubmit in flight, or the last one's end
  complete,        \* the invocation of handleCompleteSubmit in flight, or the last one's end
  isMncMissing,    \* useState: the NoMncModal is shown
  poll             \* the interval timer of the availability check and its checks in flight

vars == <<basket, spent, nextTxid, createOpen, createTask, createAmount,
          createLoading, tasksLoading, tasks, completeOpen, selectedTask,
          completeLoading, load, create, complete, isMncMissing, poll>>

walletVars == <<basket, spent, nextTxid>>
pollVars == <<isMncMissing, poll>>
createForm == <<createOpen, createTask, createAmount>>

\* null, where the code holds a Task or null.
NoTask == [ref |-> [by |-> "none", n |-> 0]]

\* The texts a user types into the task field: '' and 'é'.
TaskTexts == {<<>>, <<233>>}
\* The numbers the amount field yields: NaN, -1, 0, 0.5, 1, 1.5.
AmountInputs == {NaN, Num(-2), Num(0), Num(1), Num(2), Num(3)}
\* The codes of a failed wallet call.
ErrorCodes == {"ERR_NO_METANET_IDENTITY", "ERR_OTHER"}
\* The message of an error a wallet call throws.
WalletError == "wallet error"

\* ------------------------------------------------------ the basket at mount
\* What an output found in the basket at mount can be: a token of this
\* application, a script that is no PushDrop token, or a PushDrop token
\* encrypted under another key context.
StoredKinds == {"todo", "foreign", "otherKey"}

StoredScript(kind, i) ==
  CASE kind = "todo" ->
         PushDropLock(<<ToArray(TODO_PROTO_ADDR),
                        Encrypt(ToArray(<<96 + i>>), PROTOCOL_ID, KEY_ID)>>,
                      PROTOCOL_ID, KEY_ID, "self")
    [] kind = "otherKey" ->
         PushDropLock(<<ToArray(TODO_PROTO_ADDR),
                        Encrypt(ToArray(<<96 + i>>), PROTOCOL_ID, OTHER_KEY_ID)>>,
                      PROTOCOL_ID, OTHER_KEY_ID, "self")
    [] kind = "otherMarker" ->
         PushDropLock(<<ToArray(OTHER_PROTO_ADDR),
                        Encrypt(ToArray(<<96 + i>>), PROTOCOL_ID, KEY_ID)>>,
                      PROTOCOL_ID, KEY_ID, "self")
    [] kind = "threeFields" ->
         PushDropLock(<<ToArray(TODO_PROTO_ADDR),
                        Encrypt(ToArray(<<96 + i>>), PROTOCOL_ID, KEY_ID),
                        <<i>>>>,
                      PROTOCOL_ID, KEY_ID, "self")
    [] kind = "oneField" ->
         PushDropLock(<<ToArray(TODO_PROTO_ADDR)>>, PROTOCOL_ID, KEY_ID, "self")
    [] OTHER -> ForeignScript

\* The i-th output of the basket at mount: transaction i, output 0 (create
\* puts its one output first), worth i satoshis.
StoredOutput(kind, i) ==
  [outpoint |-> OutpointOf(i, 0), satoshis |-> Num(2 * i),
   lockingScript |-> StoredScript(kind, i)]

InitialBaskets ==
  UNION {{[i \in 1..n |-> StoredOutput(k[i], i)] : k \in [1..n -> StoredKinds]}
         : n \in 0..MaxStore}

\* loadTasks before its first await: setTasksLoading(true), listOutputs sent.
LoadStarted == [pc |-> "listOutputs", outputs |-> <<>>, txid |-> 0,
                results |-> <<>>, errorCode |-> "none", toast |-> "none"]
CreateIdle == [pc |-> "idle", createTask |-> <<>>, createAmount |-> NaN,
               tasks |-> <<>>, encryptedTask |-> <<>>,
               bitcoinOutputScript |-> ForeignScript, toast |-> "none"]
CompleteIdle == [pc |-> "idle", selectedTask |-> NoTask,
                 signableTransaction |-> [reference |-> <<0, 0>>],
                 signAction |-> [reference |-> <<0, 0>>],
                 ok |-> "none",
                 toast |-> "none"]

\* The effect of the availability check has run: setInterval has been
\* called. started counts the checks the timer has started, pending those
\* of them not yet answered, answers is the set of values they resolved to,
\* last is what getNetwork answered the check that resolved last.
PollStarted == [timer |-> "active", started |-> 0, pending |-> 0,
                answers |-> {}, last |-> "none", mounted |-> TRUE]

\* The component as it is mounted: the initial values of its state, the
\* mount effects run (loadTasks called, the interval set).
Mounted ==
  /\ createOpen = FALSE
  /\ createTask = <<>>
  /\ createAmount = DEFAULT_CREATE_AMOUNT
  /\ createLoading = FALSE
  /\ tasksLoading = TRUE
  /\ tasks = <<>>
  /\ completeOpen = FALSE
  /\ selectedTask = NoTask
  /\ completeLoading = FALSE
  /\ load = LoadStarted
  /\ create = CreateIdle
  /\ complete = CompleteIdle
  /\ isMncMissing = FALSE
  /\ poll = PollStarted

Init ==
  /\ basket \in InitialBaskets
  /\ spent = {}
  /\ nextTxid = MaxStore + 1
  /\ Mounted

\* ---------------------------------------------------------------- loadTasks
Reverse(s) == [i \in 1..Len(s) |-> s[Len(s) + 1 - i]]

\* One settled or pending element of decryptedTasksResults.
Pending == [st |-> "pending", task |-> NoTask]
Null == [st |-> "null", task |-> NoTask]
Resolved(t) == [st |-> "task", task |-> t]

\* Transaction.fromBEEF(BEEF, txid).outputs[0].lockingScript: the script of
\* output 0 of the listed transaction txid.
ScriptOfTx(outputs, txid) ==
  (CHOOSE o \in {outputs[j] : j \in 1..Len(outputs)} :
     o.outpoint = OutpointOf(txid, 0)).lockingScript

\* The map callback of candidate i up to its await: a script that does not
\* decode throws into the callback's catch (null); otherwise decrypt is sent.
CallbackStart(outputs, i) ==
  IF Decodable(ScriptOfTx(outputs, TxidOf(outputs[i].outpoint)))
  THEN Pending ELSE Null

\* The variable txid, declared outside the callbacks and assigned by each
\* of them before its await: when the map returns it holds the last
\* candidate's transaction.
TxidAfterMap(outputs) ==
  IF Len(outputs) = 0 THEN 0 ELSE TxidOf(outputs[Len(outputs)].outpoint)

\* The identity the callback gives its Task after the await: `${txid}.0`,
\* with txid as it is then.
CallbackOutpoint(txid, outputs, i) == OutpointOf(txid, 0)

\* The Task the callback of candidate i returns once decrypt has answered.
CallbackTask(txid, outputs, i) ==
  LET lockingScript == ScriptOfTx(outputs, TxidOf(outputs[i].outpoint))
      encryptedTask == DecodeFields(lockingScript)[2]
  IN  [lockingScript |-> ToHex(lockingScript),
       outpoint |-> CallbackOutpoint(txid, outputs, i),
       sats |-> outputs[i].satoshis,
       task |-> ToUTF8(Decrypt(encryptedTask, PROTOCOL_ID, KEY_ID)),
       beef |-> {TxidOf(outputs[j].outpoint) : j \in 1..Len(outputs)},
       ref |-> [by |-> "load", n |-> i]]

\* CallbackCatch without the per-candidate try/catch: one failure takes the
\* other candidates' results with it.
CallbackCatchDropsAll(results, i) == [j \in 1..Len(results) |-> Null]

\* What the per-candidate catch does with a failure: the callback returns null.
CallbackCatch(results, i) == [results EXCEPT ![i] = Null]

\* decryptedTasksResults.filter(result => result !== null)
RECURSIVE FilterTasks(_)
FilterTasks(results) ==
  IF results = <<>> THEN <<>>
  ELSE (IF Head(results).st = "task" THEN <<Head(results).task>> ELSE <<>>)
       \o FilterTasks(Tail(results))

\* LoadedList without the reverse.
LoadedListStoreOrder(results) == FilterTasks(results)

\* The list loadTasks hands to setTasks.
LoadedList(results) == Reverse(FilterTasks(results))

\* listOutputs answers: the map starts every callback, each up to its await.
ListOutputsReturn ==
  /\ load.pc = "listOutputs"
  /\ load' = [load EXCEPT !.pc = "decrypt",
                          !.outputs = basket,
                          !.txid = TxidAfterMap(basket),
                          !.results = [i \in 1..Len(basket) |-> CallbackStart(basket, i)]]
  /\ UNCHANGED <<pollVars, walletVars, createForm, createLoading, tasksLoading, tasks,
                 completeOpen, selectedTask, completeLoading, create, complete>>

\* ListOutputsThrow with the toast shown whatever the error's code.
ListOutputsThrowAlwaysToasts(code) ==
  /\ load.pc = "listOutputs"
  /\ load' = [load EXCEPT !.pc = "failed",
                          !.errorCode = code,
                          !.toast = "Failed to load ToDo tasks! Error: " \o WalletError]
  /\ tasksLoading' = FALSE
  /\ UNCHANGED <<pollVars, walletVars, createForm, createLoading, tasks,
                 completeOpen, selectedTask, completeLoading, create, complete>>

\* listOutputs throws: the outer catch, then finally.
ListOutputsThrow(code) ==
  /\ load.pc = "listOutputs"
  /\ load' = [load EXCEPT !.pc = "failed",
                          !.errorCode = code,
                          !.toast = IF code # "ERR_NO_METANET_IDENTITY"
                                    THEN "Failed to load ToDo tasks! Error: " \o WalletError
                                    ELSE "none"]
  /\ tasksLoading' = FALSE
  /\ UNCHANGED <<pollVars, walletVars, createForm, createLoading, tasks,
                 completeOpen, selectedTask, completeLoading, create, complete>>

\* decrypt answers the callback of candidate i.
DecryptReturn(i) ==
  /\ load.pc = "decrypt"
  /\ i \in 1..Len(load.results)
  /\ load.results[i].st = "pending"
  /\ Len(DecodeFields(load.outputs[i].lockingScript)) >= 2
  /\ CanDecrypt(DecodeFields(load.outputs[i].lockingScript)[2], PROTOCOL_ID, KEY_ID)
  /\ load' = [load EXCEPT !.results[i] =
                Resolved(CallbackTask(load.txid, load.outputs, i))]
  /\ UNCHANGED <<pollVars, walletVars, createForm, createLoading, tasksLoading, tasks,
                 completeOpen, selectedTask, completeLoading, create, complete>>

\* decrypt throws in the callback of candidate i: a ciphertext of another
\* key context, or no second field to decrypt.
DecryptThrow(i) ==
  /\ load.pc = "decrypt"
  /\ i \in 1..Len(load.results)
  /\ load.results[i].st = "pending"
  /\ IF Len(DecodeFields(load.outputs[i].lockingScript)) < 2 THEN TRUE
     ELSE ~CanDecrypt(DecodeFields(load.outputs[i].lockingScript)[2], PROTOCOL_ID, KEY_ID)
  /\ load' = [load EXCEPT !.results = CallbackCatch(load.results, i)]
  /\ UNCHANGED <<pollVars, walletVars, createForm, createLoading, tasksLoading, tasks,
                 completeOpen, selectedTask, completeLoading, create, complete>>

\* Promise.all resolves: filter, reverse, setTasks, then finally.
LoadTasksFinish ==
  /\ load.pc = "decrypt"
  /\ \A i \in 1..Len(load.results) : load.results[i].st # "pending"
  /\ tasks' = LoadedList(load.results)
  /\ tasksLoading' = FALSE
  /\ load' = [load EXCEPT !.pc = "done"]
  /\ UNCHANGED <<pollVars, walletVars, createForm, createLoading,
                 completeOpen, selectedTask, completeLoading, create, complete>>

LoadNext ==
  \/ ListOutputsReturn
  \/ \E code \in ErrorCodes : ListOutputsThrow(code)
  \/ \E i \in 1..(MaxStore + MaxCreate) : DecryptReturn(i)
  \/ \E i \in 1..(MaxStore + MaxCreate) : DecryptThrow(i)
  \/ LoadTasksFinish

\* ------------------------------------------------------- handleCreateSubmit
\* The form of the create dialog with its OK button: the dialog is open and
\* the loading bar has not replaced the buttons.
CreateFormShown == createOpen /\ ~createLoading

\* CreateValidation without its third check (amount < 1).
CreateValidationNoMinimum(task, amount) ==
  IF task = <<>> THEN "Enter a task to complete!"
  ELSE IF NumEq(amount, 0) \/ IsNaN(amount) THEN "Enter an amount for the new task!"
  ELSE "none"

\* The three checks at the head of handleCreateSubmit: the toast of the
\* first that fails, or "none".
CreateValidation(task, amount) ==
  IF task = <<>> THEN "Enter a task to complete!"
  ELSE IF NumEq(amount, 0) \/ IsNaN(amount) THEN "Enter an amount for the new task!"
  ELSE IF NumLt(amount, 1) THEN "The amount must at least 1 satoshi!"
  ELSE "none"

\* The user fills the two fields (their onChange handlers set createTask and
\* createAmount) and submits; a field fails a check: the toast, and return.
CreateReject(text, amount) ==
  /\ CreateFormShown
  /\ CreateValidation(text, amount) # "none"
  /\ createTask' = text
  /\ createAmount' = amount
  /\ create' = [CreateIdle EXCEPT !.pc = "rejected",
                                  !.toast = CreateValidation(text, amount)]
  /\ UNCHANGED <<pollVars, walletVars, createOpen, createLoading, tasksLoading, tasks,
                 completeOpen, selectedTask, completeLoading, load, complete>>

\* The user fills the two fields and submits; the fields pass:
\* setCreateLoading(true) and encrypt is sent. The invocation keeps the
\* createTask, createAmount and tasks of the render it was started from.
CreateSubmit(text, amount) ==
  /\ CreateFormShown
  /\ CreateValidation(text, amount) = "none"
  /\ nextTxid <= MaxStore + MaxCreate
  /\ createTask' = text
  /\ createAmount' = amount
  /\ createLoading' = TRUE
  /\ create' = [CreateIdle EXCEPT !.pc = "encrypt",
                                  !.createTask = text,
                                  !.createAmount = amount,
                                  !.tasks = tasks]
  /\ UNCHANGED <<pollVars, walletVars, createOpen, tasksLoading, tasks,
                 completeOpen, selectedTask, completeLoading, load, complete>>

\* encrypt answers: pushdrop.lock is called with the two fields.
CreateEncryptReturn ==
  /\ create.pc = "encrypt"
  /\ create' = [create EXCEPT
       !.pc = "lock",
       !.encryptedTask = Encrypt(ToArray(create.createTask), PROTOCOL_ID, KEY_ID)]
  /\ UNCHANGED <<pollVars, walletVars, createForm, createLoading, tasksLoading, tasks,
                 completeOpen, selectedTask, completeLoading, load, complete>>

\* pushdrop.lock answers: createAction is sent with the one output.
CreateLockReturn ==
  /\ create.pc = "lock"
  /\ create' = [create EXCEPT
       !.pc = "createAction",
       !.bitcoinOutputScript =
          PushDropLock(<<ToArray(TODO_PROTO_ADDR), create.encryptedTask>>,
                       PROTOCOL_ID, KEY_ID, "self")]
  /\ UNCHANGED <<pollVars, walletVars, createForm, createLoading, tasksLoading, tasks,
                 completeOpen, selectedTask, completeLoading, load, complete>>

\* The output createAction is given.
CreateOutput(c) ==
  [lockingScript |-> ToHex(c.bitcoinOutputScript), satoshis |-> c.createAmount]

\* 'Create a TODO task: ', as the code points of its text.
CREATE_DESCRIPTION ==
  <<67, 114, 101, 97, 116, 101, 32, 97, 32, 84, 79, 68, 79, 32, 116, 97,
    115, 107, 58, 32>>

\* `Create a TODO task: ${createTask}`
CreateDescription(task) == CREATE_DESCRIPTION \o task

\* The arguments of the createAction of handleCreateSubmit.
CreateActionArgs(c) ==
  [outputs |-> <<CreateOutput(c)>>, description |-> CreateDescription(c.createTask)]

\* The wallet takes an output of a whole number of satoshis, at least 1.
WalletAcceptsOutput(out) ==
  ~out.satoshis.nan /\ out.satoshis.twice % 2 = 0 /\ out.satoshis.twice >= 2

\* newTask: the Task handleCreateSubmit builds from createAction's answer.
NewTask(c, txid) ==
  [task |-> c.createTask,
   sats |-> c.createAmount,
   outpoint |-> OutpointOf(txid, 0),
   lockingScript |-> ToHex(c.bitcoinOutputScript),
   beef |-> {txid},
   ref |-> [by |-> "create", n |-> txid]]

\* InsertTask that also writes the new amount into the Tasks it keeps.
InsertTaskOverwrites(c, newTask) ==
  <<newTask>> \o [k \in 1..Len(c.tasks) |-> [c.tasks[k] EXCEPT !.sats = newTask.sats]]

\* setTasks([newTask, ...tasks]), with the tasks the invocation holds.
InsertTask(c, newTask) == <<newTask>> \o c.tasks

\* createAction answers with the new transaction: the wallet has put its
\* output 0 into the basket; the list gets the new Task, the form is reset.
CreateActionReturn ==
  /\ create.pc = "createAction"
  /\ WalletAcceptsOutput(CreateActionArgs(create).outputs[1])
  /\ LET out == CreateActionArgs(create).outputs[1]
         newTask == NewTask(create, nextTxid)
     IN  /\ basket' = Append(basket,
                        [outpoint |-> OutpointOf(nextTxid, 0),
                         satoshis |-> out.satoshis,
                         lockingScript |-> FromHex(out.lockingScript)])
         /\ tasks' = InsertTask(create, newTask)
  /\ nextTxid' = nextTxid + 1
  /\ createLoading' = FALSE
  /\ createTask' = <<>>
  /\ createAmount' = DEFAULT_CREATE_AMOUNT
  /\ createOpen' = FALSE
  /\ create' = [CreateIdle EXCEPT !.pc = "committed",
                                  !.toast = "Task successfully created!"]
  /\ UNCHANGED <<pollVars, spent, tasksLoading, completeOpen, selectedTask,
                 completeLoading, load, complete>>

\* The catch of handleCreateSubmit: the toast of the error's message and
\* setCreateLoading(false).
CreateCatch(c, message) == [CreateIdle EXCEPT !.pc = "failed", !.toast = message]

\* CreateThrow without the setCreateLoading(false) of the catch.
CreateThrowKeepsLoading ==
  /\ create.pc \in {"encrypt", "lock", "createAction"}
  /\ create' = CreateCatch(create, WalletError)
  /\ UNCHANGED <<pollVars, walletVars, createForm, createLoading, tasksLoading, tasks,
                 completeOpen, selectedTask, completeLoading, load, complete>>

\* encrypt, pushdrop.lock or createAction throws.
CreateThrow ==
  /\ create.pc \in {"encrypt", "lock", "createAction"}
  /\ create' = CreateCatch(create, WalletError)
  /\ createLoading' = FALSE
  /\ UNCHANGED <<pollVars, walletVars, createForm, tasksLoading, tasks,
                 completeOpen, selectedTask, completeLoading, load, complete>>

\* The create dialog: the add buttons and onClose.
OpenCreate ==
  /\ Len(tasks) >= 1 \/ ~tasksLoading
  /\ ~createOpen
  /\ createOpen' = TRUE
  /\ UNCHANGED <<pollVars, walletVars, createTask, createAmount, createLoading, tasksLoading,
                 tasks, completeOpen, selectedTask, completeLoading, load,
                 create, complete>>

CloseCreate ==
  /\ createOpen
  /\ createOpen' = FALSE
  /\ UNCHANGED <<pollVars, walletVars, createTask, createAmount, createLoading, tasksLoading,
                 tasks, completeOpen, selectedTask, completeLoading, load,
                 create, complete>>

CreateNext ==
  \/ \E text \in TaskTexts, amount \in AmountInputs : CreateReject(text, amount)
  \/ \E text \in TaskTexts, amount \in AmountInputs : CreateSubmit(text, amount)
  \/ CreateEncryptReturn
  \/ CreateLockReturn
  \/ CreateActionReturn
  \/ CreateThrow
  \/ OpenCreate
  \/ CloseCreate

\* ----------------------------------------------------- handleCompleteSubmit
\* CompleteFormShown with the buttons left in place while loading.
CompleteFormShownWhileLoading == completeOpen

\* The form of the complete dialog with its 'Complete Task' button.
CompleteFormShown == completeOpen /\ ~completeLoading

\* The one input createAction is given.
CompleteInput(task) == [outpoint |-> task.outpoint, inputBEEF |-> task.beef]

\* 'Complete a TODO task: "', as the code points of its text.
COMPLETE_DESCRIPTION ==
  <<67, 111, 109, 112, 108, 101, 116, 101, 32, 97, 32, 84, 79, 68, 79, 32,
    116, 97, 115, 107, 58, 32, 34>>

\* description.substring(0, 128) when description.length > 128
TruncateNever(text, n) == text

\* text.substring(0, n) where text is longer than n, else text.
Truncate(text, n) == IF Len(text) > n THEN SubSeq(text, 1, n) ELSE text

\* `Complete a TODO task: "${selectedTask.task}"`, cut to 128 characters.
CompleteDescription(task) == Truncate(COMPLETE_DESCRIPTION \o task \o <<34>>, 128)

\* The arguments of the createAction of handleCompleteSubmit.
CompleteActionArgs(task) ==
  [description |-> CompleteDescription(task.task), input |-> CompleteInput(task)]

\* The unspent output of the basket at an outpoint, as a set (empty or one).
UnspentAt(outpoint) ==
  {basket[j] : j \in {k \in 1..Len(basket) : basket[k].outpoint = outpoint}}

\* The wallet builds a signable transaction for an input it can spend: an
\* unspent output whose transaction the input BEEF holds.
WalletCanSpend(input) ==
  /\ UnspentAt(input.outpoint) # {}
  /\ TxidOf(input.outpoint) \in input.inputBEEF

\* The signable transaction createAction answers with: the transaction
\* that spends the input, and the reference the wallet knows it by.
SignableFor(input) ==
  [tx |-> [inputs |-> <<input.outpoint>>], reference |-> input.outpoint]

\* Submit: setCompleteLoading(true), and createAction is sent with the
\* selected Task's outpoint as the input to spend. The invocation keeps the
\* selectedTask of the render it was started from.
CompleteSubmit ==
  /\ CompleteFormShown
  /\ selectedTask # NoTask
  /\ completeLoading' = TRUE
  /\ complete' = [CompleteIdle EXCEPT !.pc = "createAction",
                                      !.selectedTask = selectedTask]
  /\ UNCHANGED <<pollVars, walletVars, createForm, createLoading, tasksLoading, tasks,
                 completeOpen, selectedTask, load, create>>

\* createAction answers with a signable transaction: the unlocker is built
\* from the Task's sats and lockingScript and asked to sign input 0.
CompleteCreateActionReturn ==
  /\ complete.pc = "createAction"
  /\ WalletCanSpend(CompleteActionArgs(complete.selectedTask).input)
  /\ complete' = [complete EXCEPT
       !.pc = "sign",
       !.signableTransaction = SignableFor(CompleteActionArgs(complete.selectedTask).input)]
  /\ UNCHANGED <<pollVars, walletVars, createForm, createLoading, tasksLoading, tasks,
                 completeOpen, selectedTask, completeLoading, load, create>>

\* CompleteCatch without its toast.
CompleteCatchSilent(c, message) == [CompleteIdle EXCEPT !.pc = "failed"]

\* The catch and finally of handleCompleteSubmit:
\* toast.error(`Error completing task: ${(e as Error).message}`).
CompleteCatch(c, message) ==
  [CompleteIdle EXCEPT !.pc = "failed",
                       !.toast = "Error completing task: " \o message]

\* CompleteSubmitNoTask without the finally: completeLoading stays as
\* setCompleteLoading(true) left it.
CompleteSubmitNoTaskKeepsLoading ==
  /\ ~completeOpen /\ ~completeLoading
  /\ complete.pc = "committed"
  /\ selectedTask = NoTask
  /\ complete' = CompleteCatch(complete, "selectedTask does not exist")
  /\ completeLoading' = TRUE
  /\ UNCHANGED <<pollVars, walletVars, createForm, createLoading, tasksLoading, tasks,
                 completeOpen, selectedTask, load, create>>

\* Submit with no Task selected: setCompleteLoading(true), the throw of
\* 'selectedTask does not exist', the catch, and finally sets completeLoading
\* false again, all before any await. openCompleteModal sets the selection
\* with the dialog and the commit clears both, so an open dialog has a Task
\* selected; the form is submitted with none while the dialog that a commit
\* has closed is leaving the screen, its form and button still in place.
CompleteSubmitNoTask ==
  /\ ~completeOpen /\ ~completeLoading
  /\ complete.pc = "committed"
  /\ selectedTask = NoTask
  /\ complete' = CompleteCatch(complete, "selectedTask does not exist")
  /\ completeLoading' = FALSE
  /\ UNCHANGED <<pollVars, walletVars, createForm, createLoading, tasksLoading, tasks,
                 completeOpen, selectedTask, load, create>>

\* createAction answers without a signable transaction: the throw of
\* 'Failed to create signable transaction'.
CompleteCreateActionUndefined ==
  /\ complete.pc = "createAction"
  /\ complete' = CompleteCatch(complete, "Failed to create signable transaction")
  /\ completeLoading' = FALSE
  /\ UNCHANGED <<pollVars, walletVars, createForm, createLoading, tasksLoading, tasks,
                 completeOpen, selectedTask, load, create>>

\* setTasks(prevTasks => prevTasks.filter(task => task !== selectedTask)):
\* the comparison is of object identity.
RemoveTask(prevTasks, selected) ==
  SelectSeq(prevTasks, LAMBDA task : task.ref # selected.ref)

\* The arguments of signAction: the signable transaction's reference and
\* the unlocking script under input 0.
SignActionArgs(signableTransaction, unlockingScript) ==
  [reference |-> signableTransaction.reference,
   spends |-> [n \in {0} |-> unlockingScript]]

\* CompleteSignReturn with the Task taken off the list as soon as the
\* unlocking script is made, before signAction has answered.
CompleteSignReturnRemovesEarly ==
  /\ complete.pc = "sign"
  /\ complete' = [complete EXCEPT
       !.pc = "signAction",
       !.signAction =
          SignActionArgs(complete.signableTransaction,
            UnlockSign(PROTOCOL_ID, KEY_ID, "self", "all", FALSE,
                       complete.selectedTask.sats,
                       FromHex(complete.selectedTask.lockingScript),
                       complete.signableTransaction.tx, 0))]
  /\ tasks' = RemoveTask(tasks, complete.selectedTask)
  /\ UNCHANGED <<pollVars, walletVars, createForm, createLoading, tasksLoading,
                 completeOpen, selectedTask, completeLoading, load, create>>

\* unlocker.sign(partialTx, 0) answers: signAction is sent.
CompleteSignReturn ==
  /\ complete.pc = "sign"
  /\ complete' = [complete EXCEPT
       !.pc = "signAction",
       !.signAction =
          SignActionArgs(complete.signableTransaction,
            UnlockSign(PROTOCOL_ID, KEY_ID, "self", "all", FALSE,
                       complete.selectedTask.sats,
                       FromHex(complete.selectedTask.lockingScript),
                       complete.signableTransaction.tx, 0))]
  /\ UNCHANGED <<pollVars, walletVars, createForm, createLoading, tasksLoading, tasks,
                 completeOpen, selectedTask, completeLoading, load, create>>

\* ProofUnlocks of a wallet that finalizes whatever it is handed.
ProofUnlocksAnything(proof, out) == TRUE

\* The wallet finalizes a spend whose unlocking script is the owner's
\* signature over the amount and script of the output it spends.
ProofUnlocks(proof, out) ==
  /\ Decodable(out.lockingScript)
  /\ proof.key = out.lockingScript.key
  /\ proof.sats = out.satoshis
  /\ proof.script = out.lockingScript
  /\ proof.spends = out.outpoint
  /\ proof.inputIndex = 0

\* signAction answers: the output is spent; the dialog closes, the Task is
\* filtered out of the list and the selection is cleared.
CompleteSignActionReturn ==
  /\ complete.pc = "signAction"
  /\ LET outpoint == complete.signAction.reference
     IN  /\ DOMAIN complete.signAction.spends = {0}
         /\ \E out \in UnspentAt(outpoint) :
              ProofUnlocks(complete.signAction.spends[0], out)
         /\ basket' = SelectSeq(basket, LAMBDA o : o.outpoint # outpoint)
         /\ spent' = spent \cup {outpoint}
  /\ completeLoading' = FALSE
  /\ completeOpen' = FALSE
  /\ tasks' = RemoveTask(tasks, complete.selectedTask)
  /\ selectedTask' = NoTask
  /\ complete' = [CompleteIdle EXCEPT !.pc = "committed",
                                      !.toast = "Congrats! Task complete"]
  /\ UNCHANGED <<pollVars, nextTxid, createForm, createLoading, tasksLoading, load, create>>

\* CompleteThrow with the Task taken off the list in the catch.
CompleteThrowRemoves ==
  /\ complete.pc \in {"createAction", "sign", "signAction"}
  /\ complete' = CompleteCatch(complete, WalletError)
  /\ completeLoading' = FALSE
  /\ tasks' = RemoveTask(tasks, complete.selectedTask)
  /\ UNCHANGED <<pollVars, walletVars, createForm, createLoading, tasksLoading,
                 completeOpen, selectedTask, load, create>>

\* createAction, unlocker.sign or signAction throws.
CompleteThrow ==
  /\ complete.pc \in {"createAction", "sign", "signAction"}
  /\ complete' = CompleteCatch(complete, WalletError)
  /\ completeLoading' = FALSE
  /\ UNCHANGED <<pollVars, walletVars, createForm, createLoading, tasksLoading, tasks,
                 completeOpen, selectedTask, load, create>>

\* A click on a list item; the list is shown once tasksLoading is false.
OpenCompleteModal(task) ==
  /\ ~tasksLoading
  /\ \E j \in 1..Len(tasks) : tasks[j] = task
  /\ selectedTask' = task
  /\ completeOpen' = TRUE
  /\ UNCHANGED <<pollVars, walletVars, createForm, createLoading, tasksLoading, tasks,
                 completeLoading, load, create, complete>>

CloseComplete ==
  /\ completeOpen
  /\ completeOpen' = FALSE
  /\ UNCHANGED <<pollVars, walletVars, createForm, createLoading, tasksLoading, tasks,
                 selectedTask, completeLoading, load, create, complete>>

CompleteNext ==
  \/ CompleteSubmit
  \/ CompleteCreateActionReturn
  \/ CompleteCreateActionUndefined
  \/ CompleteSignReturn
  \/ CompleteSignActionReturn
  \/ CompleteThrow
  \/ \E j \in 1..(MaxStore + MaxCreate) :
       j <= Len(tasks) /\ OpenCompleteModal(tasks[j])
  \/ CloseComplete

Next == LoadNext \/ CreateNext \/ CompleteNext

Spec == Init /\ [][Next]_vars

\* ------------------------------ handleCompleteSubmit of src/src/App.tsx
\* The earlier handleCompleteSubmit, which before createAction loads the
\* Task's BEEF and awaits its verification against the chain tracker of
\* Services('main'). The constant `ok` takes the answer; the slot's field ok
\* is "none" until then, and "valid" or "invalid" after.
VerifyResults == {"valid", "invalid"}

\* Submit: setCompleteLoading(true), and getChainTracker is awaited.
CompleteSubmitVerify ==
  /\ CompleteFormShown
  /\ selectedTask # NoTask
  /\ completeLoading' = TRUE
  /\ complete' = [CompleteIdle EXCEPT !.pc = "getChainTracker",
                                      !.selectedTask = selectedTask]
  /\ UNCHANGED <<pollVars, walletVars, createForm, createLoading, tasksLoading, tasks,
                 completeOpen, selectedTask, load, create>>

\* getChainTracker answers: loadedBeef.verify(chainTracker, true) is awaited.
CompleteChainTrackerReturn ==
  /\ complete.pc = "getChainTracker"
  /\ complete' = [complete EXCEPT !.pc = "verify"]
  /\ UNCHANGED <<pollVars, walletVars, createForm, createLoading, tasksLoading, tasks,
                 completeOpen, selectedTask, completeLoading, load, create>>

\* What the handler does with the answer of verify: `ok` is assigned and
\* not read again; createAction is sent whatever it is.
AfterVerify(c, ok) == [c EXCEPT !.pc = "createAction", !.ok = ok]

\* verify answers true or false.
CompleteVerifyReturn(ok) ==
  /\ complete.pc = "verify"
  /\ complete' = AfterVerify(complete, ok)
  /\ UNCHANGED <<pollVars, walletVars, createForm, createLoading, tasksLoading, tasks,
                 completeOpen, selectedTask, completeLoading, load, create>>

\* getChainTracker or verify throws: the catch and finally.
CompleteVerifyThrow ==
  /\ complete.pc \in {"getChainTracker", "verify"}
  /\ complete' = CompleteCatch(complete, WalletError)
  /\ completeLoading' = FALSE
  /\ UNCHANGED <<pollVars, walletVars, createForm, createLoading, tasksLoading, tasks,
                 completeOpen, selectedTask, load, create>>

CompleteVerifyNext ==
  \/ CompleteSubmitVerify
  \/ CompleteChainTrackerReturn
  \/ \E ok \in VerifyResults : CompleteVerifyReturn(ok)
  \/ CompleteVerifyThrow
  \/ CompleteCreateActionReturn
  \/ CompleteCreateActionUndefined
  \/ CompleteSignReturn
  \/ CompleteSignActionReturn
  \/ CompleteThrow
  \/ \E j \in 1..(MaxStore + MaxCreate) :
       j <= Len(tasks) /\ OpenCompleteModal(tasks[j])
  \/ CloseComplete

NextVerify == LoadNext \/ CompleteVerifyNext

SpecVerify == Init /\ [][NextVerify]_vars

\* ------------------------------------- discovery over any PushDrop tokens
\* Discovery alone, over a basket that may also hold PushDrop tokens of
\* other shapes under the application's key: another first field, a third
\* field, or the marker alone.
DiscoveryKinds == StoredKinds \cup {"otherMarker", "threeFields", "oneField"}

DiscoveryBaskets ==
  UNION {{[i \in 1..n |-> StoredOutput(k[i], i)] : k \in [1..n -> DiscoveryKinds]}
         : n \in 0..MaxStore}

InitDiscovery ==
  /\ basket \in DiscoveryBaskets
  /\ spent = {}
  /\ nextTxid = MaxStore + 1
  /\ Mounted

SpecDiscovery == InitDiscovery /\ [][LoadNext]_vars

\* ------------------------------------------------------- create and reload
\* The page is loaded again: the component is mounted anew with the initial
\* values of its state, and its mount effect runs loadTasks over the basket
\* as the wallet holds it. Handlers of the page before are gone with it.
Remount ==
  /\ createOpen' = FALSE
  /\ createTask' = <<>>
  /\ createAmount' = DEFAULT_CREATE_AMOUNT
  /\ createLoading' = FALSE
  /\ tasksLoading' = TRUE
  /\ tasks' = <<>>
  /\ completeOpen' = FALSE
  /\ selectedTask' = NoTask
  /\ completeLoading' = FALSE
  /\ load' = LoadStarted
  /\ create' = CreateIdle
  /\ complete' = CompleteIdle
  /\ isMncMissing' = FALSE
  /\ poll' = PollStarted
  /\ UNCHANGED walletVars

\* The application from a wallet whose basket holds no token of this
\* application's key (nothing, or one token of another key, of transaction
\* 1): every output of a transaction from MaxStore on is one that
\* handleCreateSubmit has made.
InitReload ==
  /\ basket \in {<<>>, <<StoredOutput("otherKey", 1)>>}
  /\ spent = {}
  /\ nextTxid = MaxStore
  /\ Mounted

NextReload == LoadNext \/ CreateNext \/ Remount

SpecReload == InitReload /\ [][NextReload]_vars

\* ---------------------------------------------------- availability poller
\* The interval of the availability check shares no state with the three
\* workflows above (it reads and writes isMncMissing and its own timer
\* only), so it is stepped under a specification of its own.

\* What getNetwork answers: a network name, or it throws.
NetworkAnswers == {"mainnet", "testnet", "regtest", "throws"}

\* CheckForMetaNetClient that takes every answer but mainnet and testnet
\* for a failed call.
CheckForMetaNetClientStrict(answer) ==
  IF answer = "mainnet" \/ answer = "testnet" THEN 1 ELSE 0

\* checkForMetaNetClient: 1 for mainnet or testnet, -1 for another answer,
\* 0 when the call throws.
CheckForMetaNetClient(answer) ==
  IF answer = "throws" THEN 0
  ELSE IF answer = "mainnet" \/ answer = "testnet" THEN 1
  ELSE -1

\* A state setter called for a component that has been unmounted: React
\* drops the update.
SetIsMncMissing(value) == IF poll.mounted THEN value ELSE isMncMissing

\* TimerAfterCheck without the clearInterval of the else branch.
TimerAfterCheckKeepsTimer(hasMNC, timer) == timer

\* The timer after the then-callback has run with hasMNC: the else branch
\* (hasMNC is not 0) calls clearInterval(intervalId).
TimerAfterCheck(hasMNC, timer) == IF hasMNC = 0 THEN timer ELSE "cleared"

\* The timer fires: checkForMetaNetClient() is called, getNetwork is sent.
\* The timer does not wait for the checks it started before.
PollTick ==
  /\ poll.timer = "active"
  /\ poll.started < MaxChecks
  /\ poll' = [poll EXCEPT !.started = @ + 1, !.pending = @ + 1]
  /\ UNCHANGED <<walletVars, createForm, createLoading, tasksLoading, tasks,
                 completeOpen, selectedTask, completeLoading, load, create,
                 complete, isMncMissing>>

\* A check in flight resolves: the then-callback.
PollCheckReturn(answer) ==
  /\ poll.pending > 0
  /\ LET hasMNC == CheckForMetaNetClient(answer)
     IN  /\ isMncMissing' = SetIsMncMissing(hasMNC = 0)
         /\ poll' = [poll EXCEPT !.pending = @ - 1,
                                 !.answers = @ \cup {hasMNC},
                                 !.last = answer,
                                 !.timer = TimerAfterCheck(hasMNC, @)]
  /\ UNCHANGED <<walletVars, createForm, createLoading, tasksLoading, tasks,
                 completeOpen, selectedTask, completeLoading, load, create,
                 complete>>

\* onClose of the NoMncModal.
CloseNoMncModal ==
  /\ poll.mounted
  /\ isMncMissing
  /\ isMncMissing' = FALSE
  /\ UNCHANGED <<walletVars, createForm, createLoading, tasksLoading, tasks,
                 completeOpen, selectedTask, completeLoading, load, create,
                 complete, poll>>

\* The component is unmounted. The effect was given to
\* useAsyncEffect(effect, []): the hook's cleanup calls the destroy callback
\* passed as its second argument, when that is a function. Here the second
\* argument is the dependency list; the function the effect returns
\* (clearInterval(intervalId)) is the effect's result, which the hook hands
\* to no one. The timer is left as it is.
Teardown ==
  /\ poll.mounted
  /\ poll' = [poll EXCEPT !.mounted = FALSE]
  /\ UNCHANGED <<walletVars, createForm, createLoading, tasksLoading, tasks,
                 completeOpen, selectedTask, completeLoading, load, create,
                 complete, isMncMissing>>

PollNext ==
  \/ PollTick
  \/ \E answer \in NetworkAnswers : PollCheckReturn(answer)
  \/ CloseNoMncModal
  \/ Teardown

SpecPoll == Init /\ [][PollNext]_vars

\* ------------------------------------------------- redeem of a long task
\* A token of this application whose text is n letters 'a', as output i.0.
LongText(n) == [k \in 1..n |-> 97]
LongOutput(n, i) ==
  [outpoint |-> OutpointOf(i, 0), satoshis |-> Num(2 * i),
   lockingScript |->
     PushDropLock(<<ToArray(TODO_PROTO_ADDR),
                    Encrypt(ToArray(LongText(n)), PROTOCOL_ID, KEY_ID)>>,
                  PROTOCOL_ID, KEY_ID, "self")]

\* The basket at mount holds one long task, alone or before another token.
LongBaskets ==
  {<<LongOutput(n, 1)>> : n \in (MaxText - 2)..MaxText}
    \cup {<<LongOutput(n, 1), StoredOutput(kind, 2)>> :
            n \in (MaxText - 2)..MaxText, kind \in {"todo", "otherKey"}}

InitLong ==
  /\ basket \in LongBaskets
  /\ spent = {}
  /\ nextTxid = MaxStore + 1
  /\ Mounted

NextLong == LoadNext \/ CompleteNext

SpecLong == InitLong /\ [][NextLong]_vars

\* ------------------------------------------------- redeem with no selection
\* Discovery and redeem, with the submit of the form of a closing dialog.
NextNoTask == LoadNext \/ CompleteNext \/ CompleteSubmitNoTask

SpecNoTask == Init /\ [][NextNoTask]_vars

\* ================================================================= claims
CreateInFlight == create.pc \in {"encrypt", "lock", "createAction"}
CompleteInFlight == complete.pc \in {"createAction", "sign", "signAction"}

\* A create submission's fields that the checks are to refuse: no text, or
\* an amount that is NaN, 0 or below 1.
RefusedInput(text, amount) ==
  text = <<>> \/ amount.nan \/ amount.twice = 0 \/ amount.twice < 2

\* A step that is a submission of the create form: no invocation is in
\* flight and the step changes the fields or starts or ends an invocation.
CreateSubmission ==
  /\ ~CreateInFlight
  /\ <<create, createTask, createAmount>>' # <<create, createTask, createAmount>>

\* C1: a create submission with an empty text or an amount that is NaN, 0 or
\* below 1 ends rejected with no wallet call sent (the invocation awaits
\* none), and leaves the list, createLoading and the wallet as they were.
C1_RejectedBeforeAnyCall ==
  [][(CreateSubmission /\ RefusedInput(createTask', createAmount'))
       => /\ create'.pc = "rejected"
          /\ tasks' = tasks
          /\ createLoading' = createLoading
          /\ UNCHANGED walletVars]_vars

\* A submission of the amount 0.5 has been rejected, with Tasks on the list.
C1_Witness ==
  /\ create.pc = "rejected"
  /\ createTask # <<>>
  /\ createAmount = Num(1)
  /\ tasks # <<>>
  /\ ~createLoading

\* C2: every Task a discovery callback returns has the outpoint of the
\* listed output its lockingScript, sats and text were taken from.
C2_IdentityOfOwnOutput ==
  \A i \in 1..Len(load.results) :
    load.results[i].st = "task"
      => load.results[i].task.outpoint = load.outputs[i].outpoint

\* A listed output that does not decode, or whose second field does not
\* decrypt under the application's protocol and key context.
FailsToLoad(o) ==
  \/ ~Decodable(o.lockingScript)
  \/ Len(DecodeFields(o.lockingScript)) < 2
  \/ ~CanDecrypt(DecodeFields(o.lockingScript)[2], PROTOCOL_ID, KEY_ID)

FailedCount(outputs) ==
  Cardinality({i \in 1..Len(outputs) : FailsToLoad(outputs[i])})

\* C3: discovery over N listed outputs of which K fail to decode or decrypt
\* ends done, never failed, with a list of exactly N-K Tasks, one for each
\* output that did not fail.
C3_PartialResults ==
  [][load.pc = "decrypt"
       => /\ load'.pc \in {"decrypt", "done"}
          /\ load'.pc = "done"
               => /\ Len(tasks') = Len(load.outputs) - FailedCount(load.outputs)
                  /\ \A i \in 1..Len(load.outputs) :
                       ~FailsToLoad(load.outputs[i])
                         => \E k \in 1..Len(tasks') :
                              /\ tasks'[k].lockingScript
                                   = ToHex(load.outputs[i].lockingScript)
                              /\ tasks'[k].sats = load.outputs[i].satoshis]_vars

\* Discovery has ended over two outputs of which one failed, and the list
\* holds the one Task of the other.
C3_Witness ==
  /\ load.pc = "done"
  /\ Len(load.outputs) = 2
  /\ FailedCount(load.outputs) = 1
  /\ Len(tasks) = 1
  /\ create.pc = "idle"
  /\ complete.pc = "idle"

\* The listed outputs that load, newest first.
ExpectedOrder(outputs) ==
  Reverse(SelectSeq(outputs, LAMBDA o : ~FailsToLoad(o)))

\* C4: the list discovery sets is the store's order reversed, restricted to
\* the outputs that decrypted: position k holds the script, amount and text
\* of the k-th such output counted from the end of the listing.
C4_NewestFirst ==
  [][(load.pc = "decrypt" /\ load'.pc = "done")
       => LET expected == ExpectedOrder(load.outputs)
          IN  /\ Len(tasks') = Len(expected)
              /\ \A k \in 1..Len(expected) :
                   /\ tasks'[k].lockingScript = ToHex(expected[k].lockingScript)
                   /\ tasks'[k].sats = expected[k].satoshis
                   /\ ToArray(tasks'[k].task)
                        = DecodeFields(expected[k].lockingScript)[2].ct]_vars

\* Discovery has ended over two outputs that both decrypted: the second
\* listed is first on the list.
C4_Witness ==
  /\ load.pc = "done"
  /\ create.pc = "idle"
  /\ complete.pc = "idle"
  /\ Len(tasks) = 2
  /\ tasks[1].sats = load.outputs[2].satoshis
  /\ tasks[2].sats = load.outputs[1].satoshis

\* A step in which a redeem commits.
RedeemCommits == complete.pc = "signAction" /\ complete'.pc = "committed"

\* C5: when a redeem of the Task with outpoint X commits, the list holds no
\* Task with outpoint X afterwards, and the other Tasks keep their order.
C5_RedeemedIdentityGone ==
  [][RedeemCommits
       => /\ \A k \in 1..Len(tasks') :
               tasks'[k].outpoint # complete.selectedTask.outpoint
          /\ tasks' = SelectSeq(tasks,
               LAMBDA task : task.outpoint # complete.selectedTask.outpoint)]_vars

\* C6: once a redeem of outpoint X has committed, no later step sends a
\* createAction that spends X.
C6_NoSecondRedemption ==
  [][(complete'.pc = "createAction" /\ complete' # complete)
       => complete'.selectedTask.outpoint \notin spent]_vars

\* C7: while a redeem is in flight no second invocation of the handler
\* starts: no step sends a createAction in place of the calls awaited.
C7_OneRedeemInFlight ==
  [][CompleteInFlight
       => /\ complete'.pc = "createAction" => complete' = complete
          /\ CompleteInFlight' => complete'.selectedTask = complete.selectedTask]_vars

\* A redeem is in flight while the complete dialog is open on the very Task
\* it redeems.
C7_Witness ==
  /\ CompleteInFlight
  /\ completeOpen
  /\ selectedTask = complete.selectedTask
  /\ completeLoading

\* A step that takes a Task off the list.
TaskRemoved == \E k \in 1..Len(tasks) :
                 \A j \in 1..Len(tasks') : tasks'[j].ref # tasks[k].ref

\* C8: a redeem's phases come in the order createAction, unlock signature
\* for input 0, signAction with the skeleton's reference and the signature
\* under index 0, removal: the signature is asked for only with a signable
\* transaction in hand, signAction only with that signature, and a Task
\* leaves the list only in the step in which signAction answers.
C8_RedeemPhaseOrder ==
  [][/\ (complete'.pc = "sign" /\ complete.pc # "sign")
          => /\ complete.pc = "createAction"
             /\ "tx" \in DOMAIN complete'.signableTransaction
             /\ complete'.signableTransaction.tx.inputs
                  = <<complete.selectedTask.outpoint>>
     /\ (complete'.pc = "signAction" /\ complete.pc # "signAction")
          => /\ complete.pc = "sign"
             /\ complete'.signAction.reference
                  = complete.signableTransaction.reference
             /\ DOMAIN complete'.signAction.spends = {0}
             /\ complete'.signAction.spends[0].inputIndex = 0
             /\ complete'.signAction.spends[0].spends
                  = complete.signableTransaction.tx.inputs[1]
     /\ (complete'.pc = "committed" /\ complete.pc # "committed")
          => complete.pc = "signAction"
     /\ TaskRemoved => (complete.pc = "signAction" /\ complete'.pc = "committed")
     /\ (complete.pc = "createAction"
           /\ complete'.toast
                = "Error completing task: Failed to create signable transaction")
          => complete'.pc = "failed"]_vars

\* A redeem has committed: its output is spent and its Task is off the list.
C8_Witness ==
  /\ complete.pc = "committed"
  /\ spent # {}
  /\ \A k \in 1..Len(tasks) : tasks[k].outpoint \notin spent

\* C9: a step of a create or redeem invocation that is not its commit (a
\* phase passed or a failure) leaves the list as it was.
C9_FailureLeavesList ==
  [][/\ (create' # create /\ create'.pc # "committed") => tasks' = tasks
     /\ (complete' # complete /\ complete'.pc # "committed") => tasks' = tasks]_vars

\* A create and a redeem have both failed with Tasks on the list.
C9_Witness ==
  /\ create.pc = "failed"
  /\ complete.pc = "failed"
  /\ tasks # <<>>

\* A step in which a create commits.
CreateCommits == create.pc = "createAction" /\ create'.pc = "committed"

\* C10: when a create of text P and amount V commits, the list is a Task
\* with text P, amount V, the script submitted and outpoint (txid, 0) of the
\* transaction the wallet made, followed by the list as it was.
C10_CreatedTaskPrepended ==
  [][CreateCommits
       => /\ Len(tasks') = Len(tasks) + 1
          /\ tasks'[1].task = create.createTask
          /\ tasks'[1].sats = create.createAmount
          /\ tasks'[1].lockingScript = ToHex(create.bitcoinOutputScript)
          /\ tasks'[1].outpoint = OutpointOf(nextTxid, 0)
          /\ Tail(tasks') = tasks]_vars

\* C11: the insert of a create's commit is made over the list as it is when
\* the commit happens: whatever a redeem or a discovery did to the list
\* while the create was awaiting the wallet is still done afterwards, the
\* list being one new Task followed by the list of just before the commit.
C11_InsertOverCurrentList ==
  [][CreateCommits
       => /\ tasks' # <<>>
          /\ tasks'[1].ref = [by |-> "create", n |-> nextTxid]
          /\ tasks' = <<tasks'[1]>> \o tasks]_vars

\* C12: a redeem that has had a negative answer from the verification of the
\* Task's BEEF does not go on to its commit: a commit is made only by a
\* redeem whose verification was not negative.
C12_NegativeVerificationSurfaced ==
  [][RedeemCommits => complete.ok # "invalid"]_vars

\* C13: when loadTasks has failed with the code ERR_NO_METANET_IDENTITY, no
\* error toast was shown and tasksLoading is still true (it stays true until
\* a later discovery succeeds).
C13_NoIdentityKeepsLoading ==
  (load.pc = "failed" /\ load.errorCode = "ERR_NO_METANET_IDENTITY")
    => (load.toast = "none" /\ tasksLoading)

\* C14: once a check has resolved to a value other than 0 the timer is
\* cleared, and a cleared timer stays cleared and starts no further check.
C14_PollerSelfCancels ==
  [][/\ (poll'.answers \ {0} # {}) => poll'.timer = "cleared"
     /\ poll.timer = "cleared"
          => (poll'.timer = "cleared" /\ poll'.started = poll.started)]_vars

\* A check has resolved to 1 while another is still in flight and the timer
\* had checks left to start: the timer is cleared.
C14_Witness ==
  /\ 1 \in poll.answers
  /\ poll.timer = "cleared"
  /\ poll.pending > 0
  /\ poll.started < MaxChecks
  /\ poll.mounted

\* C15: once the component is torn down the timer is cancelled: no further
\* check is started, and a check that resolves afterwards changes neither
\* isMncMissing nor the timer.
C15_TeardownDiscardsPending ==
  [][~poll.mounted
       => /\ poll.timer = "cleared"
          /\ poll'.started = poll.started
          /\ isMncMissing' = isMncMissing
          /\ poll'.timer = poll.timer]_vars

\* The two-field shape of a token of this application: the marker, then one
\* more field.
TwoFieldShape(script) ==
  /\ Decodable(script)
  /\ Len(DecodeFields(script)) = 2
  /\ DecodeFields(script)[1] = ToArray(TODO_PROTO_ADDR)

\* C16: when discovery has ended, every Task on the list was built from a
\* script of exactly two fields of which the first is the marker.
C16_OnlyMarkedTwoFieldTokens ==
  load.pc = "done"
    => \A k \in 1..Len(tasks) : TwoFieldShape(FromHex(tasks[k].lockingScript))

\* C17: no two Tasks on the list have the same outpoint (the wallet gives
\* every transaction its own txid: nextTxid only grows, and the outputs of
\* the basket at mount are of different transactions).
C17_IdentitiesDistinct ==
  \A j, k \in 1..Len(tasks) : j # k => tasks[j].outpoint # tasks[k].outpoint

\* An output handleCreateSubmit has made, under SpecReload.
MadeByCreate(o) == TxidOf(o.outpoint) >= MaxStore

\* C18: a discovery gives, for each listed output that handleCreateSubmit
\* made, a Task with what the Task inserted at its creation had: the
\* outpoint of the output, its script, its amount, and the text whose bytes
\* were encrypted.
C18_CreatedTaskDiscoveredSame ==
  [][(load.pc = "decrypt" /\ load'.pc = "done")
       => \A i \in {j \in 1..Len(load.outputs) : MadeByCreate(load.outputs[j])} :
            \E k \in 1..Len(tasks') :
              /\ tasks'[k].outpoint = load.outputs[i].outpoint
              /\ tasks'[k].lockingScript = ToHex(load.outputs[i].lockingScript)
              /\ tasks'[k].sats = load.outputs[i].satoshis
              /\ ToArray(tasks'[k].task)
                   = DecodeFields(load.outputs[i].lockingScript)[2].ct]_vars

\* The text sub occurs in the text s.
Contains(s, sub) ==
  \E i \in 0..(Len(s) - Len(sub)) : SubSeq(s, i + 1, i + Len(sub)) = sub

\* C19: no createAction is sent with a description that holds the text of
\* the task: not the one of handleCreateSubmit, not the one of
\* handleCompleteSubmit.
C19_NoPlaintextInDescriptions ==
  /\ create.pc = "createAction"
       => ~Contains(CreateActionArgs(create).description, create.createTask)
  /\ complete.pc = "createAction"
       => ~Contains(CompleteActionArgs(complete.selectedTask).description,
                    complete.selectedTask.task)

\* A whole number of satoshis, at least 1.
WholeSatoshis(n) == ~n.nan /\ n.twice % 2 = 0 /\ n.twice >= 2

\* C20: every Task on the list has an amount that is a whole number of at
\* least 1, and a create that has passed its checks and is calling the
\* wallet does so with such an amount.
C20_WholeAmounts ==
  /\ \A k \in 1..Len(tasks) : WholeSatoshis(tasks[k].sats)
  /\ CreateInFlight => WholeSatoshis(create.createAmount)

\* A Task whose amount or script is not that of the unspent output at the
\* outpoint it carries.
Mismatched(task) ==
  \E out \in UnspentAt(task.outpoint) :
    out.satoshis # task.sats \/ ToHex(out.lockingScript) # task.lockingScript

RedeemContext == <<PROTOCOL_ID, KEY_ID, "self">>

\* The script is the two fields [marker, ciphertext of the text] locked
\* under the context of the redeem.
CreatedShape(script, text) ==
  /\ Decodable(script)
  /\ Len(DecodeFields(script)) = 2
  /\ DecodeFields(script)[1] = ToArray(TODO_PROTO_ADDR)
  /\ DecodeFields(script)[2] = Encrypt(ToArray(text), PROTOCOL_ID, KEY_ID)
  /\ script.key = RedeemContext

\* C22: the locking script handleCreateSubmit hands to createAction, and
\* the script of every output it made, carries exactly the two fields
\* [marker, ciphertext that encrypt returned for the entered text], and is
\* locked under the protocol, key ID and 'self' counterparty with which
\* handleCompleteSubmit makes its unlocking script.
C22_CreateLocksAsRedeemUnlocks ==
  /\ create.pc = "createAction"
       => /\ CreatedShape(create.bitcoinOutputScript, create.createTask)
          /\ DecodeFields(create.bitcoinOutputScript)[2] = create.encryptedTask
  /\ \A i \in 1..Len(basket) :
       TxidOf(basket[i].outpoint) > MaxStore
         => \E text \in TaskTexts : CreatedShape(basket[i].lockingScript, text)
  /\ complete.pc = "signAction"
       => /\ complete.signAction.spends[0].key = RedeemContext
          /\ \A i \in 1..Len(basket) :
               TxidOf(basket[i].outpoint) > MaxStore
                 => complete.signAction.spends[0].key = basket[i].lockingScript.key

C22_Witness ==
  /\ complete.pc = "signAction"
  /\ TxidOf(complete.selectedTask.outpoint) > MaxStore
  /\ \E i \in 1..Len(basket) :
       /\ basket[i].outpoint = complete.selectedTask.outpoint
       /\ CreatedShape(basket[i].lockingScript, complete.selectedTask.task)
       /\ ProofUnlocks(complete.signAction.spends[0], basket[i])

\* C23: a Task that a committed redeem took off the list is never put back:
\* no step adds to the list a Task whose outpoint a committed redeem has
\* spent, whichever workflow takes the step and whenever it started.
C23_RedeemedNeverReappears ==
  [][\A k \in 1..Len(tasks') :
       tasks'[k].outpoint \in spent
         => \E j \in 1..Len(tasks) : tasks[j].ref = tasks'[k].ref]_vars

\* C24: once a check has resolved to a value other than 0 and the timer is
\* cleared, isMncMissing is false and stays false: no check that was started
\* before and resolves afterwards sets it to true.
C24_AvailableStaysAvailable ==
  [][(poll.timer = "cleared" /\ poll.answers \ {0} # {}) => ~isMncMissing']_vars

\* The messages of the failures that the wallet and the handlers raise.
FailureMessages == {WalletError, "Failed to create signable transaction"}
CreateFails == create'.pc = "failed" /\ create.pc # "failed"
CompleteFails == complete'.pc = "failed" /\ complete.pc # "failed"

ListingFails == load.pc = "listOutputs" /\ load'.pc = "failed"

\* C26: when listOutputs throws, the step leaves the list as it was, and it
\* shows the 'Failed to load ToDo tasks!' toast if and only if the error's
\* code is not ERR_NO_METANET_IDENTITY.
C26_ListingFailureKeepsList ==
  [][ListingFails
       => /\ tasks' = tasks
          /\ load'.errorCode \in ErrorCodes
          /\ (load'.toast = "Failed to load ToDo tasks! Error: " \o WalletError)
               <=> (load'.errorCode # "ERR_NO_METANET_IDENTITY")
          /\ (load'.toast = "none")
               <=> (load'.errorCode = "ERR_NO_METANET_IDENTITY")]_vars

C26_Witness ==
  /\ load.pc = "failed"
  /\ load.errorCode = "ERR_OTHER"
  /\ load.toast = "Failed to load ToDo tasks! Error: " \o WalletError
  /\ tasks = <<>>
  /\ basket # <<>>

CheckResolves == poll'.pending < poll.pending

\* C28: a check resolves to 1 when getNetwork answered 'mainnet' or
\* 'testnet', to -1 when it answered anything else, to 0 when it threw, and
\* to nothing else; the then-callback sets isMncMissing true for 0 and
\* leaves the timer, and for 1 and -1 alike sets isMncMissing false and
\* clears the timer.
C28_CheckResultsAndIndicator ==
  [][CheckResolves
       => LET hasMNC == CheckForMetaNetClient(poll'.last)
          IN  /\ poll'.last \in NetworkAnswers
              /\ poll'.last \in {"mainnet", "testnet"} => hasMNC = 1
              /\ poll'.last = "regtest" => hasMNC = -1
              /\ poll'.last = "throws" => hasMNC = 0
              /\ hasMNC \in poll'.answers
              /\ poll'.answers \subseteq {1, -1, 0}
              /\ poll.mounted => (isMncMissing' <=> (poll'.last = "throws"))
              /\ (isMncMissing' /\ ~isMncMissing) => poll'.last = "throws"
              /\ poll'.last = "throws" => poll'.timer = poll.timer
              /\ poll'.last # "throws" => poll'.timer = "cleared"]_vars

\* The modal was raised by a check that threw, and a later check that was
\* answered 'regtest' has taken it down and cleared the timer.
C28_Witness ==
  /\ poll.last = "regtest"
  /\ poll.answers = {0, -1}
  /\ ~isMncMissing
  /\ poll.timer = "cleared"
  /\ poll.mounted
  /\ poll.pending = 0

\* C29: the description handleCompleteSubmit gives createAction is the first
\* 128 characters of 'Complete a TODO task: "<text>"', the whole of it where
\* it is no longer than that: it is never longer than 128 characters.
C29_RedeemDescriptionCut ==
  complete.pc = "createAction"
    => LET text == COMPLETE_DESCRIPTION \o complete.selectedTask.task \o <<34>>
           description == CompleteActionArgs(complete.selectedTask).description
       IN  /\ Len(description) <= 128
           /\ Len(description) = IF Len(text) < 128 THEN Len(text) ELSE 128
           /\ \A k \in 1..Len(description) : description[k] = text[k]

\* A redeem of a task whose description was cut: it ends in a letter of the
\* text, not in the closing quote.
C29_Witness ==
  /\ complete.pc = "createAction"
  /\ Len(complete.selectedTask.task) = MaxText
  /\ Len(CompleteActionArgs(complete.selectedTask).description) = 128
  /\ CompleteActionArgs(complete.selectedTask).description[128] = 97

\* C30: no step changes a field of a Task that is on the list: a Task that
\* is on the list before and after a step of a create, a redeem or a
\* discovery has the same text, amount, outpoint, script and BEEF after it.
C30_ListedTasksUnchanged ==
  [][\A k \in 1..Len(tasks') : \A j \in 1..Len(tasks) :
       tasks'[k].ref = tasks[j].ref => tasks'[k] = tasks[j]]_vars

\* The list holds a Task of the discovery under a Task a create inserted,
\* after a redeem has committed.
C30_Witness ==
  /\ Len(tasks) >= 2
  /\ tasks[1].ref.by = "create"
  /\ tasks[2].ref.by # "create"
  /\ spent # {}
  /\ load.pc = "done"
  /\ create.pc = "committed"

\* C31: with no Task selected, a submit of the complete form fails with the
\* error 'selectedTask does not exist' in the step of the submit: it sends
\* no createAction and no signAction, leaves the list, the basket and the
\* spent outputs as they were, and completeLoading is false after it.
C31_NoSelectionFailsAtOnce ==
  [][(selectedTask = NoTask /\ complete' # complete)
       => /\ complete'.pc = "failed"
          /\ complete'.toast = "Error completing task: " \o "selectedTask does not exist"
          /\ complete'.selectedTask = NoTask
          /\ tasks' = tasks
          /\ basket' = basket
          /\ spent' = spent
          /\ nextTxid' = nextTxid
          /\ ~completeLoading']_vars

\* A submit with no selection has failed after a commit, other Tasks still
\* on the list.
C31_Witness ==
  /\ complete.pc = "failed"
  /\ complete.toast = "Error completing task: selectedTask does not exist"
  /\ selectedTask = NoTask
  /\ ~completeLoading
  /\ spent # {}
  /\ Len(tasks) >= 1

====
